---- MODULE Spec2Model ----
(***************************************************************************)
(* modius: the node identity (src/lib.rs), the peer directory              *)
(* (src/util.rs), the command protocol (src/net/command.rs) and the        *)
(* network engine with its event loop (src/net/client.rs).                 *)
(*                                                                         *)
(* The specifications share the variables:                                 *)
(*   Spec        the engine task, its callers and the owning Node;         *)
(*   SpecFair    Spec with the fairness the tokio scheduler gives it;      *)
(*   SpecNode    the Node value on its own: builder, save and hydrate;     *)
(*   SpecActive  a built Node, its three handles and Node::active.         *)
(*                                                                         *)
(* The collaborators (libp2p swarm, serde_json, async_channel) are         *)
(* modelled by their interface: a dial, a registration, a bind, an accept  *)
(* and a serialisation each end in success or in their error, chosen       *)
(* nondeterministically; a channel is a queue with a closed flag.          *)
(***************************************************************************)
EXTENDS Integers, Sequences, FiniteSets, TLC

\* ---------------------------------------------------------------- bounds
\* command envelopes issued over a run
MaxCmds == 2
\* peers a builder takes before build()
MaxBuilderPeers == 2
\* distinct secret keys per key type
NumSecrets == 2

\* ------------------------------------------------------ program constants
DefaultPort == 8000
DefaultGroup == "modius.generic"
Namespace == "modius"

Envelopes == 1..MaxCmds
Kinds == {"AddRelay", "AddRendezvous"}

\* Option<T>: <<>> is None, <<v>> is Some(v)
None == <<>>
Some(v) == <<v>>

\* ------------------------------------------------------------ util.rs
PeerTypes == {"Bootstrap", "Discovered"}

\* Peer::new
Peer_new(kind, id, address) ==
    [id |-> id, address |-> address, kind |-> kind,
     last_seen |-> None, name |-> None]

\* the peers commands name: identity i lives at its own address
PeerAddress(i) == <<"ip4", "tcp", 4000 + i>>
CmdPeers == {Peer_new("Bootstrap", 1, PeerAddress(1)),
             Peer_new("Discovered", 2, PeerAddress(2))}

VARIABLES
    \* engine (Client) -------------------------------------------------
    pc,            \* position of the background task in Client::main
    listener,      \* the swarm has an active listener
    mainResult,    \* what Client::main returned: "none", "Ok", "BindError", "LoopError"
    cmdQueue,      \* the command channel's queue of envelope ids
    cmdClosed,     \* the command channel is closed
    evtClosed,     \* the event channel is closed
    taskFinished,  \* JoinHandle::is_finished()
    cur,           \* the envelope the loop dequeued (0: none)
    lastWake,      \* the select! branch that completed last
    stack,         \* holder of the swarm mutex: "free", "loop", "handler"
    \* envelopes (CommandWrapper) and their callers ---------------------
    envKind, envPeer,
    envLoc,        \* "none", "queued", "handling", "dropped"
    responses,     \* per envelope: the values passed to response.send
    slot,          \* per envelope: content of the capacity-1 channel
    netlog,        \* per envelope: network operations its handler made
    callerState,   \* "idle", "waiting", "done", "closed", "send_failed", "cancelled"
    \* Node and its builder --------------------------------------------
    node,          \* the Node struct
    built,         \* build() has produced node
    builderPeers,  \* NodeBuilder.peers : Option<Vec<Peer>>
    tb,            \* the last try_bootstrap call
    saved,         \* the last SavedNode : Option
    hydrated,      \* the last hydrate result : Option
    activeSeen     \* the last call of Node::active: what it read and returned

engineVars == <<pc, listener, mainResult, cmdQueue, cmdClosed, evtClosed,
                taskFinished, cur, lastWake, stack>>
envVars == <<envKind, envPeer, envLoc, responses, slot, netlog,
             callerState>>
nodeVars == <<node, built, builderPeers, tb, saved, hydrated, activeSeen>>
vars == <<pc, listener, mainResult, cmdQueue, cmdClosed, evtClosed,
          taskFinished, cur, lastWake, stack, envKind, envPeer, envLoc, responses,
          slot, netlog, callerState, node, built, builderPeers,
          tb, saved, hydrated, activeSeen>>

\* the strings a caller may hand to try_bootstrap, and what the two
\* FromStr implementations make of them
IdStrings == {"QmA", "QmB", "Qm", ""}
AddrStrings == {"/ip4/127.0.0.1/tcp/4001", "127.0.0.1:4001"}

\* PeerId::from_str
PeerId_from_str(s) ==
    CASE s = "QmA" -> [ok |-> TRUE, val |-> 1]
      [] s = "QmB" -> [ok |-> TRUE, val |-> 2]
      [] OTHER     -> [ok |-> FALSE, err |-> "ParseError"]

\* Multiaddr::from_str
Multiaddr_from_str(s) ==
    IF s = "/ip4/127.0.0.1/tcp/4001"
    THEN [ok |-> TRUE, val |-> <<"ip4", "tcp", 4001>>]
    ELSE [ok |-> FALSE, err |-> "ParseError"]

\* Peer::try_new: the first failing parse returns its error
Peer_try_new(kind, id, address) ==
    LET peer_id == PeerId_from_str(id)
        multiaddr == Multiaddr_from_str(address)
    IN  IF ~peer_id.ok THEN [ok |-> FALSE, err |-> peer_id.err]
        ELSE IF ~multiaddr.ok THEN [ok |-> FALSE, err |-> multiaddr.err]
        ELSE [ok |-> TRUE, val |-> Peer_new(kind, peer_id.val, multiaddr.val)]

\* ------------------------------------------------------------- lib.rs
KeyTypes == {"Ed25519", "Secp256k1"}
Keys == [type : KeyTypes, secret : 1..NumSecrets]

\* the KeyType tag of the protobuf encoding
KeyTag(type) == IF type = "Ed25519" THEN 1 ELSE 2

\* Keypair::to_protobuf_encoding: the type tag, then the secret
to_protobuf_encoding(key) == <<KeyTag(key.type), key.secret>>

\* Keypair::from_protobuf_encoding: rejects anything that is not a tag
\* followed by a secret
from_protobuf_encoding(bytes) ==
    IF /\ Len(bytes) = 2
       /\ bytes[1] \in {KeyTag(t) : t \in KeyTypes}
       /\ bytes[2] \in 1..NumSecrets
    THEN [ok |-> TRUE,
          val |-> [type |-> CHOOSE t \in KeyTypes : KeyTag(t) = bytes[1],
                   secret |-> bytes[2]]]
    ELSE [ok |-> FALSE, err |-> "DecodingError"]

\* key bytes no Keypair encodes to
MalformedKeys == {<<>>, <<1>>, <<0, 1>>}

\* what a caller configures on the builder (name, group, port): the
\* defaults of the Node struct, or its own values
Profiles ==
    {[name |-> "1700000000.modius", group |-> DefaultGroup, port |-> DefaultPort],
     [name |-> "alice", group |-> "lab", port |-> 4001]}

\* the Node a builder yields: the live-engine fields are skipped by the
\* builder and start absent
Node_build(key, peers, profile) ==
    [key |-> key, peers |-> peers, name |-> profile.name,
     group |-> profile.group, port |-> profile.port,
     commands |-> FALSE, events |-> FALSE, thread |-> FALSE]

\* a with_peer that starts the list again on every call
with_peer_replacing(peers, peer) == Some(<<peer>>)

\* NodeBuilder::with_peer on Option<Vec<Peer>>
with_peer(peers, peer) ==
    IF peers # None THEN Some(Append(peers[1], peer)) ELSE Some(<<peer>>)

\* NodeBuilder::try_bootstrap: the new peer list and the result
try_bootstrap(peers, id, addr) ==
    LET p == Peer_try_new("Bootstrap", id, addr)
    IN  IF p.ok THEN [peers |-> with_peer(peers, p.val), ret |-> "Ok"]
        ELSE [peers |-> peers, ret |-> p.err]

\* SavedNode::save
SavedNode_save(n) ==
    [key |-> to_protobuf_encoding(n.key), peers |-> n.peers,
     name |-> n.name, group |-> n.group, port |-> n.port]

\* a hydrate that starts from an empty peer list
hydrate_without_peers(s) ==
    LET key == from_protobuf_encoding(s.key)
    IN  IF ~key.ok THEN [ok |-> FALSE, err |-> key.err]
        ELSE [ok |-> TRUE,
              val |-> [key |-> key.val, peers |-> <<>>, name |-> s.name,
                       group |-> s.group, port |-> s.port,
                       commands |-> FALSE, events |-> FALSE, thread |-> FALSE]]

\* SavedNode::hydrate
hydrate(s) ==
    LET key == from_protobuf_encoding(s.key)
    IN  IF ~key.ok THEN [ok |-> FALSE, err |-> key.err]
        ELSE [ok |-> TRUE,
              val |-> [key |-> key.val, peers |-> s.peers, name |-> s.name,
                       group |-> s.group, port |-> s.port,
                       commands |-> FALSE, events |-> FALSE, thread |-> FALSE]]

\* an active that returns is_finished() as it is
active_finished_is_live(commands, commandsClosed, events, eventsClosed, thread, finished) ==
    IF ~commands THEN FALSE
    ELSE IF commandsClosed THEN FALSE
    ELSE IF ~events THEN FALSE
    ELSE IF eventsClosed THEN FALSE
    ELSE IF thread THEN finished
    ELSE FALSE

\* an active that does not ask the event receiver whether it is closed
active_ignoring_events_closed(commands, commandsClosed, events, eventsClosed, thread, finished) ==
    IF ~commands THEN FALSE
    ELSE IF commandsClosed THEN FALSE
    ELSE IF ~events THEN FALSE
    ELSE IF thread THEN ~finished
    ELSE FALSE

\* Node::active, over the three handles and what they report
active(commands, commandsClosed, events, eventsClosed, thread, finished) ==
    IF ~commands THEN FALSE
    ELSE IF commandsClosed THEN FALSE
    ELSE IF ~events THEN FALSE
    ELSE IF eventsClosed THEN FALSE
    ELSE IF thread THEN ~finished
    ELSE FALSE

IsActive == active(node.commands, cmdClosed, node.events, evtClosed,
                   node.thread, taskFinished)

\* ------------------------------------------------------ net/command.rs
\* a response: Ok(Value::Null) for the unit value, or the boxed error
OkNull == <<"Ok", "Null">>
ErrOf(e) == <<"Err", e>>

\* serde_json::to_value of the unit value, the only payload the handlers
\* of client.rs respond with: always Value::Null
to_value(val) == [ok |-> TRUE, val |-> "Null"]

\* CommandWrapper::respond: the values it passes to response.send and what
\* it returns. On Ok the value is serialised first, and a serialisation
\* error would return before anything is sent; on Err the error is sent.
respond(result) ==
    IF result = "Ok"
    THEN LET v == to_value("()")
         IN  IF v.ok THEN [send |-> <<<<"Ok", v.val>>>>, ret |-> "Ok"]
             ELSE [send |-> <<>>, ret |-> "SerdeError"]
    ELSE [send |-> <<ErrOf(result)>>, ret |-> "Ok"]

\* ------------------------------------------------------- net/client.rs
\* swarm.dial(address): the operation and its outcome
dial(address, ok) ==
    [op |-> <<"dial", address>>, result |-> IF ok THEN "Ok" ELSE "DialError"]

\* rendezvous.register(namespace, rendezvous_node, None)
register(namespace, id, ok) ==
    [op |-> <<"register", namespace, id>>,
     result |-> IF ok THEN "Ok" ELSE "RegisterError"]

\* a network operation as the log keeps it: the call and how it ended
Logged(call) == <<call.op, call.result>>

\* AddRendezvous that registers whatever the dial gave
handle_command_ignoring_dial(kind, peer, dialOk, regOk) ==
    LET d == dial(peer.address, dialOk)
    IN  IF kind = "AddRelay"
        THEN LET r == respond(d.result)
             IN  [ops |-> <<Logged(d)>>, send |-> r.send, ret |-> r.ret]
        ELSE LET g == register(Namespace, peer.id, regOk)
                 r == respond(IF d.result = "Ok" THEN g.result ELSE d.result)
             IN  [ops |-> <<Logged(d), Logged(g)>>, send |-> r.send, ret |-> r.ret]

\* AddRendezvous that answers with the dial's outcome after registering
handle_command_dial_outcome(kind, peer, dialOk, regOk) ==
    LET d == dial(peer.address, dialOk)
    IN  IF kind = "AddRelay" \/ d.result # "Ok"
        THEN LET r == respond(d.result)
             IN  [ops |-> <<Logged(d)>>, send |-> r.send, ret |-> r.ret]
        ELSE LET g == register(Namespace, peer.id, regOk)
                 r == respond(d.result)
             IN  [ops |-> <<Logged(d), Logged(g)>>, send |-> r.send, ret |-> r.ret]

\* AddRendezvous that answers the dial and then the registration
handle_command_two_responses(kind, peer, dialOk, regOk) ==
    LET d == dial(peer.address, dialOk)
    IN  IF kind = "AddRelay" \/ d.result # "Ok"
        THEN LET r == respond(d.result)
             IN  [ops |-> <<Logged(d)>>, send |-> r.send, ret |-> r.ret]
        ELSE LET g == register(Namespace, peer.id, regOk)
                 r1 == respond(d.result)
                 r2 == respond(g.result)
             IN  [ops |-> <<Logged(d), Logged(g)>>, send |-> r1.send \o r2.send,
                  ret |-> r2.ret]

\* a handler that answers only a successful dial
handle_command_silent_failure(kind, peer, dialOk, regOk) ==
    LET d == dial(peer.address, dialOk)
    IN  IF d.result # "Ok"
        THEN [ops |-> <<Logged(d)>>, send |-> <<>>, ret |-> "Ok"]
        ELSE IF kind = "AddRelay"
        THEN LET r == respond(d.result)
             IN  [ops |-> <<Logged(d)>>, send |-> r.send, ret |-> r.ret]
        ELSE LET g == register(Namespace, peer.id, regOk)
                 r == respond(g.result)
             IN  [ops |-> <<Logged(d), Logged(g)>>, send |-> r.send, ret |-> r.ret]

\* a handler that returns a failed dial to the loop with `?`
handle_command_propagating_dial(kind, peer, dialOk, regOk) ==
    LET d == dial(peer.address, dialOk)
    IN  IF d.result # "Ok"
        THEN LET r == respond(d.result)
             IN  [ops |-> <<Logged(d)>>, send |-> r.send, ret |-> d.result]
        ELSE IF kind = "AddRelay"
        THEN LET r == respond(d.result)
             IN  [ops |-> <<Logged(d)>>, send |-> r.send, ret |-> r.ret]
        ELSE LET g == register(Namespace, peer.id, regOk)
                 r == respond(g.result)
             IN  [ops |-> <<Logged(d), Logged(g)>>, send |-> r.send, ret |-> r.ret]

\* a handler that starts the relay dial and reports success whatever the
\* dial returned
handle_command_relay_always_ok(kind, peer, dialOk, regOk) ==
    LET d == dial(peer.address, dialOk)
    IN  IF kind = "AddRelay"
        THEN LET r == respond("Ok")
             IN  [ops |-> <<Logged(d)>>, send |-> r.send, ret |-> r.ret]
        ELSE IF d.result = "Ok"
        THEN LET g == register(Namespace, peer.id, regOk)
                 r == respond(g.result)
             IN  [ops |-> <<Logged(d), Logged(g)>>, send |-> r.send, ret |-> r.ret]
        ELSE LET r == respond(d.result)
             IN  [ops |-> <<Logged(d)>>, send |-> r.send, ret |-> r.ret]

\* a handler that registers a second time when the registration failed
handle_command_retrying_registration(kind, peer, dialOk, regOk) ==
    LET d == dial(peer.address, dialOk)
    IN  IF kind = "AddRelay"
        THEN LET r == respond(d.result)
             IN  [ops |-> <<Logged(d)>>, send |-> r.send, ret |-> r.ret]
        ELSE IF d.result = "Ok"
        THEN LET g == register(Namespace, peer.id, regOk)
                 h == register(Namespace, peer.id, TRUE)
                 r == respond(IF g.result = "Ok" THEN g.result ELSE h.result)
             IN  [ops |-> IF g.result = "Ok"
                          THEN <<Logged(d), Logged(g)>>
                          ELSE <<Logged(d), Logged(g), Logged(h)>>,
                  send |-> r.send, ret |-> r.ret]
        ELSE LET r == respond(d.result)
             IN  [ops |-> <<Logged(d)>>, send |-> r.send, ret |-> r.ret]

\* Client::handle_command with the stack locked: the network operations
\* made, the values sent on the envelope's response channel, and the
\* handler's result
handle_command(kind, peer, dialOk, regOk) ==
    LET d == dial(peer.address, dialOk)
    IN  IF kind = "AddRelay"
        THEN LET r == respond(d.result)
             IN  [ops |-> <<Logged(d)>>, send |-> r.send, ret |-> r.ret]
        ELSE IF d.result = "Ok"
        THEN LET g == register(Namespace, peer.id, regOk)
                 r == respond(g.result)
             IN  [ops |-> <<Logged(d), Logged(g)>>, send |-> r.send, ret |-> r.ret]
        ELSE LET r == respond(d.result)
             IN  [ops |-> <<Logged(d)>>, send |-> r.send, ret |-> r.ret]

\* live Sender<CommandWrapper> handles: the Node's, and the clone every
\* caller holds from send() until it returns
SenderCount(n, cs) ==
    (IF n.commands THEN 1 ELSE 0)
    + Cardinality({e \in Envelopes : cs[e] = "waiting"})

\* the command channel closes when its last sender is dropped
ClosedByDrop(n, cs) == pc # "idle" /\ SenderCount(n, cs) = 0

\* the loop is in Client::event_loop
Running == pc \in {"loop", "wait", "cmd", "cmd_locked"}
\* Client::main has returned
Returned == pc \in {"returned", "finished"}

\* ------------------------------------------------------------- Init
EnvInit ==
    /\ envKind = [e \in Envelopes |-> "AddRelay"]
    /\ envPeer = [e \in Envelopes |-> Peer_new("Bootstrap", 1, PeerAddress(1))]
    /\ envLoc = [e \in Envelopes |-> "none"]
    /\ responses = [e \in Envelopes |-> <<>>]
    /\ slot = [e \in Envelopes |-> <<>>]
    /\ netlog = [e \in Envelopes |-> <<>>]
    /\ callerState = [e \in Envelopes |-> "idle"]

EngineInit ==
    /\ pc = "idle"
    /\ listener = FALSE
    /\ mainResult = "none"
    /\ cmdQueue = <<>>
    /\ cmdClosed = FALSE
    /\ evtClosed = FALSE
    /\ taskFinished = FALSE
    /\ cur = 0
    /\ lastWake = "none"
    /\ stack = "free"

NoCall == [called |-> FALSE]

\* Spec starts from a Node a builder has just produced
Init ==
    /\ EngineInit
    /\ EnvInit
    /\ built = TRUE
    /\ node = Node_build([type |-> "Ed25519", secret |-> 1], <<>>,
                         [name |-> "1700000000.modius", group |-> DefaultGroup,
                          port |-> DefaultPort])
    /\ builderPeers = None
    /\ tb = NoCall
    /\ saved = None
    /\ hydrated = None
    /\ activeSeen = None

\* ------------------------------------------------- the engine's task
\* activation: Client::create makes the two channels and the swarm, the
\* Node takes the command sender, the event receiver and the handle of the
\* task spawned on Client::main
Activate ==
    /\ UNCHANGED stack
    /\ pc = "idle"
    /\ built
    /\ ~node.commands /\ ~node.events /\ ~node.thread
    /\ pc' = "main"
    /\ node' = [node EXCEPT !.commands = TRUE, !.events = TRUE, !.thread = TRUE]
    /\ activeSeen' = None
    /\ UNCHANGED <<listener, mainResult, cmdQueue, cmdClosed, evtClosed,
                   taskFinished, cur, lastWake, envVars, built, builderPeers,
                   tb, saved, hydrated>>

\* a main that goes on to the event loop whatever listen_on returned
Listen_ignoring_failure ==
    /\ pc = "main"
    /\ stack = "free"
    /\ \E ok \in BOOLEAN :
         /\ listener' = ok
         /\ pc' = "accept"
    /\ UNCHANGED <<stack, mainResult, cmdQueue, cmdClosed, evtClosed,
                   taskFinished, cur, lastWake, envVars, nodeVars>>

\* Client::main, lines 175-177: parse the listen address and bind; either
\* failure returns the error at once
Listen ==
    /\ pc = "main"
    /\ stack = "free"
    /\ UNCHANGED stack
    /\ \E ok \in BOOLEAN :
         IF ok
         THEN /\ listener' = TRUE
              /\ pc' = "accept"
              /\ UNCHANGED mainResult
         ELSE /\ pc' = "returned"
              /\ mainResult' = "BindError"
              /\ UNCHANGED listener
    /\ UNCHANGED <<cmdQueue, cmdClosed, evtClosed, taskFinished, cur,
                   lastWake, envVars, nodeVars>>

\* Client::event_loop, lines 141-149: register the stream protocol under
\* the lock, which the statement releases; an error returns from event_loop
\* before the loop is entered
Accept ==
    /\ pc = "accept"
    /\ stack = "free"
    /\ \E ok \in BOOLEAN : pc' = IF ok THEN "loop" ELSE "remove_listener"
    /\ UNCHANGED stack
    /\ UNCHANGED <<listener, mainResult, cmdQueue, cmdClosed, evtClosed,
                   taskFinished, cur, lastWake, envVars, nodeVars>>

\* Client::event_loop, lines 151-152: the iteration locks the stack and
\* suspends in select! holding the guard
LockForWait ==
    /\ pc = "loop"
    /\ stack = "free"
    /\ stack' = "loop"
    /\ pc' = "wait"
    /\ UNCHANGED <<listener, mainResult, cmdQueue, cmdClosed, evtClosed,
                   taskFinished, cur, lastWake, envVars, nodeVars>>

\* a wait that hands out the newest envelope first
SelectCommand_newest_first ==
    /\ pc = "wait"
    /\ stack = "loop"
    /\ stack' = "free"
    /\ cmdQueue # <<>>
    /\ cur' = cmdQueue[Len(cmdQueue)]
    /\ cmdQueue' = SubSeq(cmdQueue, 1, Len(cmdQueue) - 1)
    /\ envLoc' = [envLoc EXCEPT ![cmdQueue[Len(cmdQueue)]] = "handling"]
    /\ lastWake' = "command"
    /\ pc' = "cmd"
    /\ UNCHANGED <<listener, mainResult, cmdClosed, evtClosed, taskFinished,
                   envKind, envPeer, responses, slot, netlog, callerState,
                   nodeVars>>

\* an iteration that keeps the guard of its wait while it dispatches
SelectCommand_keeping_guard ==
    /\ pc = "wait"
    /\ stack = "loop"
    /\ UNCHANGED stack
    /\ cmdQueue # <<>>
    /\ cur' = Head(cmdQueue)
    /\ cmdQueue' = Tail(cmdQueue)
    /\ envLoc' = [envLoc EXCEPT ![Head(cmdQueue)] = "handling"]
    /\ lastWake' = "command"
    /\ pc' = "cmd"
    /\ UNCHANGED <<listener, mainResult, cmdClosed, evtClosed, taskFinished,
                   envKind, envPeer, responses, slot, netlog, callerState,
                   nodeVars>>

\* select!, first branch: commands.recv() yields the oldest envelope; the
\* guard of line 152 is dropped where the match arm ends (line 158)
SelectCommand ==
    /\ pc = "wait"
    /\ stack = "loop"
    /\ stack' = "free"
    /\ cmdQueue # <<>>
    /\ cur' = Head(cmdQueue)
    /\ cmdQueue' = Tail(cmdQueue)
    /\ envLoc' = [envLoc EXCEPT ![Head(cmdQueue)] = "handling"]
    /\ lastWake' = "command"
    /\ pc' = "cmd"
    /\ UNCHANGED <<listener, mainResult, cmdClosed, evtClosed, taskFinished,
                   envKind, envPeer, responses, slot, netlog, callerState,
                   nodeVars>>

\* select!, first branch on a closed and empty channel: recv() is an error,
\* the branch yields Err(()), nothing is dispatched and the loop goes round
SelectCommandClosed ==
    /\ pc = "wait"
    /\ stack = "loop"
    /\ stack' = "free"
    /\ cmdQueue = <<>>
    /\ cmdClosed
    /\ lastWake' = "closed"
    /\ pc' = "loop"
    /\ UNCHANGED <<listener, mainResult, cmdQueue, cmdClosed, evtClosed,
                   taskFinished, cur, envVars, nodeVars>>

\* select!, second branch, and handle_event, which returns Ok(())
SwarmEvent ==
    /\ pc = "wait"
    /\ stack = "loop"
    /\ stack' = "free"
    /\ lastWake' = "swarm"
    /\ pc' = "loop"
    /\ UNCHANGED <<listener, mainResult, cmdQueue, cmdClosed, evtClosed,
                   taskFinished, cur, envVars, nodeVars>>

\* select!, third branch, and handle_stream, which returns Ok(())
InboundStream ==
    /\ pc = "wait"
    /\ stack = "loop"
    /\ stack' = "free"
    /\ lastWake' = "stream"
    /\ pc' = "loop"
    /\ UNCHANGED <<listener, mainResult, cmdQueue, cmdClosed, evtClosed,
                   taskFinished, cur, envVars, nodeVars>>

\* Client::handle_command, line 102: lock the stack; the mutex is not
\* reentrant, so the lock is taken only when nobody holds it
LockStack ==
    /\ pc = "cmd"
    /\ stack = "free"
    /\ stack' = "handler"
    /\ pc' = "cmd_locked"
    /\ UNCHANGED <<listener, mainResult, cmdQueue, cmdClosed, evtClosed,
                   taskFinished, cur, lastWake, envVars, nodeVars>>

\* the dispatch of the dequeued envelope: handle_command, its sends on the
\* envelope's response channel (dropped when the receiver is gone), the
\* release of the stack and the drop of the envelope, and the loop's
\* reaction to the handler's result
HandleCommand ==
    /\ pc = "cmd_locked"
    /\ stack = "handler"
    /\ \E dialOk \in BOOLEAN, regOk \in BOOLEAN :
         LET r == handle_command(envKind[cur], envPeer[cur], dialOk, regOk)
         IN  /\ netlog' = [netlog EXCEPT ![cur] = @ \o r.ops]
             /\ responses' = [responses EXCEPT ![cur] = @ \o r.send]
             /\ slot' = [slot EXCEPT ![cur] =
                            IF callerState[cur] = "cancelled" THEN @ ELSE @ \o r.send]
             /\ pc' = IF r.ret = "Ok" THEN "loop" ELSE "remove_listener"
    /\ stack' = "free"
    /\ envLoc' = [envLoc EXCEPT ![cur] = "dropped"]
    /\ cur' = 0
    /\ UNCHANGED <<listener, mainResult, cmdQueue, cmdClosed, evtClosed,
                   taskFinished, lastWake, envKind, envPeer, callerState,
                   nodeVars>>

\* a shutdown that leaves the listener in place
RemoveListener_skipped ==
    /\ pc = "remove_listener"
    /\ stack = "free"
    /\ pc' = "close_commands"
    /\ UNCHANGED <<listener, stack, mainResult, cmdQueue, cmdClosed, evtClosed,
                   taskFinished, cur, lastWake, envVars, nodeVars>>

\* Client::main, lines 179-182: the lock is held for the statement
RemoveListener ==
    /\ pc = "remove_listener"
    /\ stack = "free"
    /\ UNCHANGED stack
    /\ listener' = FALSE
    /\ pc' = "close_commands"
    /\ UNCHANGED <<mainResult, cmdQueue, cmdClosed, evtClosed, taskFinished,
                   cur, lastWake, envVars, nodeVars>>

\* Client::main, line 183
CloseCommands ==
    /\ UNCHANGED stack
    /\ pc = "close_commands"
    /\ cmdClosed' = TRUE
    /\ pc' = "close_events"
    /\ UNCHANGED <<listener, mainResult, cmdQueue, evtClosed, taskFinished,
                   cur, lastWake, envVars, nodeVars>>

\* a shutdown that leaves the event channel open
CloseEvents_skipped ==
    /\ UNCHANGED stack
    /\ pc = "close_events"
    /\ mainResult' = "LoopError"
    /\ pc' = "returned"
    /\ UNCHANGED <<listener, cmdQueue, cmdClosed, evtClosed, taskFinished,
                   cur, lastWake, envVars, nodeVars>>

\* Client::main, lines 184-185: close the event channel and return the
\* loop's result, which is always its error
CloseEvents ==
    /\ UNCHANGED stack
    /\ pc = "close_events"
    /\ evtClosed' = TRUE
    /\ mainResult' = "LoopError"
    /\ pc' = "returned"
    /\ UNCHANGED <<listener, cmdQueue, cmdClosed, taskFinished, cur,
                   lastWake, envVars, nodeVars>>

\* the spawned task ends once Client::main has returned
TaskFinish ==
    /\ UNCHANGED stack
    /\ pc = "returned"
    /\ taskFinished' = TRUE
    /\ pc' = "finished"
    /\ UNCHANGED <<listener, mainResult, cmdQueue, cmdClosed, evtClosed,
                   cur, lastWake, envVars, nodeVars>>

\* ---------------------------------------------------------- callers
\* the envelope a new command takes
NextEnvelope == CHOOSE e \in Envelopes :
    /\ callerState[e] = "idle"
    /\ \A f \in Envelopes : callerState[f] = "idle" => e <= f

\* CommandKind::send, lines 47-48: wrap the command with a fresh response
\* channel and send the envelope; the send fails on a closed channel
IssueCommand ==
    /\ UNCHANGED stack
    /\ pc # "idle"
    /\ node.commands
    /\ \E e \in Envelopes : callerState[e] = "idle"
    /\ \E kind \in Kinds, peer \in CmdPeers :
         LET e == NextEnvelope
         IN  IF cmdClosed
             THEN /\ callerState' = [callerState EXCEPT ![e] = "send_failed"]
                  /\ UNCHANGED <<cmdQueue, envKind, envPeer, envLoc>>
             ELSE /\ callerState' = [callerState EXCEPT ![e] = "waiting"]
                  /\ cmdQueue' = Append(cmdQueue, e)
                  /\ envKind' = [envKind EXCEPT ![e] = kind]
                  /\ envPeer' = [envPeer EXCEPT ![e] = peer]
                  /\ envLoc' = [envLoc EXCEPT ![e] = "queued"]
    /\ UNCHANGED <<pc, listener, mainResult, cmdClosed, evtClosed,
                   taskFinished, cur, lastWake, responses, slot, netlog,
                   nodeVars>>

\* CommandKind::send, lines 50-53: take the response, or find the channel
\* closed and empty once the envelope is dropped; the caller's sender
\* clone is dropped on return
CallerRecv(e) ==
    /\ UNCHANGED stack
    /\ callerState[e] = "waiting"
    /\ \/ /\ slot[e] # <<>>
          /\ slot' = [slot EXCEPT ![e] = Tail(@)]
          /\ callerState' = [callerState EXCEPT ![e] = "done"]
       \/ /\ slot[e] = <<>>
          /\ envLoc[e] = "dropped"
          /\ callerState' = [callerState EXCEPT ![e] = "closed"]
          /\ UNCHANGED slot
    /\ cmdClosed' = (cmdClosed \/ ClosedByDrop(node, callerState'))
    /\ UNCHANGED <<pc, listener, mainResult, cmdQueue, evtClosed,
                   taskFinished, cur, lastWake, envKind, envPeer, envLoc,
                   responses, netlog, nodeVars>>

\* the caller drops the future of send() while it waits: its receiver and
\* its sender clone go with it
CallerCancel(e) ==
    /\ UNCHANGED stack
    /\ callerState[e] = "waiting"
    /\ callerState' = [callerState EXCEPT ![e] = "cancelled"]
    /\ slot' = [slot EXCEPT ![e] = <<>>]
    /\ cmdClosed' = (cmdClosed \/ ClosedByDrop(node, callerState'))
    /\ UNCHANGED <<pc, listener, mainResult, cmdQueue, evtClosed,
                   taskFinished, cur, lastWake, envKind, envPeer, envLoc,
                   responses, netlog, nodeVars>>

\* the owner drops the Node: its sender, its event receiver (the only one)
\* and its task handle
DropNode ==
    /\ UNCHANGED stack
    /\ pc # "idle"
    /\ node.commands
    /\ node' = [node EXCEPT !.commands = FALSE, !.events = FALSE, !.thread = FALSE]
    /\ evtClosed' = TRUE
    /\ cmdClosed' = (cmdClosed \/ ClosedByDrop(node', callerState))
    /\ UNCHANGED <<pc, listener, mainResult, cmdQueue, taskFinished, cur,
                   lastWake, envVars, built, builderPeers, tb, saved,
                   hydrated, activeSeen>>

\* a call of Node::active
ObserveActive ==
    /\ built
    /\ activeSeen' = Some([commands |-> node.commands, commandsClosed |-> cmdClosed,
                            events |-> node.events, eventsClosed |-> evtClosed,
                            thread |-> node.thread, finished |-> taskFinished,
                            result |-> IsActive])
    /\ UNCHANGED <<engineVars, envVars, node, built, builderPeers, tb, saved,
                   hydrated>>

Next ==
    \/ Activate
    \/ Listen
    \/ Accept
    \/ LockForWait
    \/ SelectCommand
    \/ SelectCommandClosed
    \/ SwarmEvent
    \/ InboundStream
    \/ LockStack
    \/ HandleCommand
    \/ RemoveListener
    \/ CloseCommands
    \/ CloseEvents
    \/ TaskFinish
    \/ IssueCommand
    \/ \E e \in Envelopes : CallerRecv(e)
    \/ \E e \in Envelopes : CallerCancel(e)
    \/ DropNode

Spec == Init /\ [][Next]_vars

\* the task is polled until it completes, and select! picks among the
\* ready branches at random, so a ready command is not passed over forever
Fairness ==
    /\ WF_vars(Listen)
    /\ WF_vars(Accept)
    /\ SF_vars(SelectCommand)
    /\ WF_vars(LockStack)
    /\ WF_vars(LockForWait)
    /\ WF_vars(HandleCommand)
    /\ WF_vars(RemoveListener)
    /\ WF_vars(CloseCommands)
    /\ WF_vars(CloseEvents)
    /\ WF_vars(TaskFinish)

SpecFair == Init /\ [][Next]_vars /\ Fairness

\* ---------------------------------------- the Node value on its own
\* SpecNode starts from an empty builder; the engine part stays idle and
\* the three handles of the Node are whatever its public fields are given
InitNode ==
    /\ EngineInit
    /\ EnvInit
    /\ built = FALSE
    /\ node = Node_build([type |-> "Ed25519", secret |-> 1], <<>>,
                         [name |-> "1700000000.modius", group |-> DefaultGroup,
                          port |-> DefaultPort])
    /\ builderPeers = None
    /\ tb = NoCall
    /\ saved = None
    /\ hydrated = None
    /\ activeSeen = None

BuilderPeerList == IF builderPeers = None THEN <<>> ELSE builderPeers[1]

\* a call of NodeBuilder::try_bootstrap
TryBootstrap ==
    /\ ~built
    /\ Len(BuilderPeerList) < MaxBuilderPeers
    /\ \E id \in IdStrings, addr \in AddrStrings :
         LET r == try_bootstrap(builderPeers, id, addr)
         IN  /\ builderPeers' = r.peers
             /\ tb' = [called |-> TRUE, id |-> id, addr |-> addr,
                       before |-> builderPeers, ret |-> r.ret]
    /\ UNCHANGED <<engineVars, envVars, node, built, saved, hydrated, activeSeen>>

\* NodeBuilder::build: the peers default to an empty list
Build ==
    /\ ~built
    /\ \E key \in Keys, profile \in Profiles :
         node' = Node_build(key, BuilderPeerList, profile)
    /\ built' = TRUE
    /\ UNCHANGED <<engineVars, envVars, builderPeers, tb, saved, hydrated,
                   activeSeen>>

\* the public handle fields of a dormant Node are assigned
SetHandles ==
    /\ built
    /\ ~node.commands /\ ~node.events /\ ~node.thread
    /\ ~cmdClosed /\ ~evtClosed /\ ~taskFinished
    /\ \E c \in BOOLEAN, e \in BOOLEAN, t \in BOOLEAN :
         /\ c \/ e \/ t
         /\ node' = [node EXCEPT !.commands = c, !.events = e, !.thread = t]
    /\ UNCHANGED <<engineVars, envVars, built, builderPeers, tb, saved,
                   hydrated, activeSeen>>

\* what the engine does to the handles a Node holds, seen from the Node:
\* the command channel closes, the event channel closes, the task finishes
HandleChanges ==
    /\ UNCHANGED stack
    /\ built
    /\ \/ /\ node.commands /\ ~cmdClosed
          /\ cmdClosed' = TRUE
          /\ UNCHANGED <<evtClosed, taskFinished>>
       \/ /\ node.events /\ ~evtClosed
          /\ evtClosed' = TRUE
          /\ UNCHANGED <<cmdClosed, taskFinished>>
       \/ /\ node.thread /\ ~taskFinished
          /\ taskFinished' = TRUE
          /\ UNCHANGED <<cmdClosed, evtClosed>>
    /\ UNCHANGED <<pc, listener, mainResult, cmdQueue, cur, lastWake,
                   envVars, nodeVars>>

\* the durable fields of a Node
NodeData(n) ==
    [key |-> n.key, peers |-> n.peers, name |-> n.name, group |-> n.group,
     port |-> n.port]

\* Node::save
Save ==
    /\ built
    /\ saved' = Some([origin |-> "save", of |-> NodeData(node),
                      live |-> node.commands /\ node.events /\ node.thread,
                      val |-> SavedNode_save(node)])
    /\ UNCHANGED <<engineVars, envVars, node, built, builderPeers, tb,
                   hydrated, activeSeen>>

\* a SavedNode read back from storage whose key bytes are damaged
LoadDamaged ==
    /\ saved # None
    /\ saved[1].origin = "save"
    /\ \E bytes \in MalformedKeys :
         saved' = Some([origin |-> "storage", of |-> saved[1].of,
                        live |-> saved[1].live,
                        val |-> [saved[1].val EXCEPT !.key = bytes]])
    /\ UNCHANGED <<engineVars, envVars, node, built, builderPeers, tb,
                   hydrated, activeSeen>>

\* Node::load, which is SavedNode::hydrate
Hydrate ==
    /\ saved # None
    /\ hydrated' = Some([from |-> saved[1], res |-> hydrate(saved[1].val)])
    /\ UNCHANGED <<engineVars, envVars, node, built, builderPeers, tb, saved,
                   activeSeen>>

NextNode ==
    \/ TryBootstrap
    \/ Build
    \/ SetHandles
    \/ Save
    \/ LoadDamaged
    \/ Hydrate

SpecNode == InitNode /\ [][NextNode]_vars

\* SpecActive: a built Node, its handles, and calls of Node::active
NextActive ==
    \/ SetHandles
    \/ HandleChanges
    \/ ObserveActive

SpecActive == Init /\ [][NextActive]_vars

\* =============================================================== claims
Handled(e) == envLoc[e] = "dropped"
DialOf(e) == netlog[e][1]
DialFailed(e) == Handled(e) /\ DialOf(e) = <<<<"dial", envPeer[e].address>>, "DialError">>
DialSucceeded(e) == Handled(e) /\ DialOf(e) = <<<<"dial", envPeer[e].address>>, "Ok">>
Registrations(e) == {i \in 1..Len(netlog[e]) : netlog[e][i][1][1] = "register"}

\* C1: an AddRendezvous whose dial of peer.address failed is answered with
\* exactly the dial error, and its handler made no registration: the dial
\* is the only network operation between its dequeue and its response.
C1_DialFailureSkipsRegistration ==
    \A e \in Envelopes :
        /\ (envKind[e] = "AddRendezvous" /\ envLoc[e] = "handling")
              => (netlog[e] = <<>> /\ responses[e] = <<>>)
        /\ (envKind[e] = "AddRendezvous" /\ DialFailed(e))
              => /\ responses[e] = <<ErrOf("DialError")>>
                 /\ Registrations(e) = {}
                 /\ Len(netlog[e]) = 1

C1_Witness ==
    \E e \in Envelopes :
        /\ envKind[e] = "AddRendezvous"
        /\ DialFailed(e)
        /\ responses[e] # <<>>

\* C2: an AddRendezvous whose dial succeeded registers exactly once, under
\* the namespace "modius" with peer.id as rendezvous point, and its response
\* is the registration's outcome: Ok(Null) or the registration error, which
\* differs from the response of any command whose dial failed.
C2_ResponseIsRegistrationOutcome ==
    \A e \in Envelopes :
        (envKind[e] = "AddRendezvous" /\ DialSucceeded(e))
            => /\ \A f \in Envelopes : DialFailed(f) => responses[f] # responses[e] /\ Len(netlog[e]) = 2
               /\ Cardinality(Registrations(e)) = 1
               /\ netlog[e][2][1] = <<"register", "modius", envPeer[e].id>>
               /\ netlog[e][2][2] \in {"Ok", "RegisterError"}
               /\ responses[e] = IF netlog[e][2][2] = "Ok"
                                 THEN <<OkNull>>
                                 ELSE <<ErrOf("RegisterError")>>

C2_Witness ==
    \E e \in Envelopes :
        /\ envKind[e] = "AddRendezvous"
        /\ DialSucceeded(e)
        /\ responses[e] = <<ErrOf("RegisterError")>>

\* C3: at most one response is ever sent on an envelope's private channel,
\* and the channel never holds more than its one slot.
C3_AtMostOneResponse ==
    \A e \in Envelopes : Len(responses[e]) <= 1 /\ Len(slot[e]) <= 1

C3_Witness ==
    \A e \in Envelopes : Handled(e) /\ Len(responses[e]) = 1

\* C4: every envelope accepted on the command channel is eventually sent
\* exactly one response, unless Client::main has returned; and while the
\* loop runs no envelope is dropped without its response.
C4_ResponseOrTermination ==
    /\ \A e \in Envelopes :
          (envLoc[e] \in {"queued", "handling"})
              ~> (Len(responses[e]) = 1 \/ Returned)
    /\ [](\A e \in Envelopes :
              (Handled(e) /\ Running) => Len(responses[e]) = 1)

C4_Witness ==
    /\ Running
    /\ \E e \in Envelopes :
          /\ Handled(e) /\ envKind[e] = "AddRelay"
          /\ responses[e] = <<ErrOf("DialError")>>
    /\ \E e \in Envelopes : envLoc[e] = "queued"

\* C5: once Client::main has returned after event_loop returned, the
\* command channel and the event channel are closed, and a closed channel
\* stays closed.
C5_ShutdownClosesChannels ==
    /\ []((Returned /\ mainResult = "LoopError") => (cmdClosed /\ evtClosed))
    /\ [][(cmdClosed => cmdClosed') /\ (evtClosed => evtClosed')]_vars

C5_Witness ==
    /\ pc = "finished"
    /\ mainResult = "LoopError"
    /\ node.commands
    /\ cmdClosed /\ evtClosed

\* C6: when the command channel is closed by the drop of its last sender,
\* the command branch of the next wait reports the closure and the loop
\* leaves Running for the shutdown steps.
C6_ClosureShutsDown ==
    [][(pc = "wait" /\ cmdClosed /\ cmdQueue = <<>> /\ lastWake' = "closed")
          => pc' = "remove_listener"]_vars

\* C7: once active() is false for an activated Node, it is false in every
\* later state, whatever the engine and the callers do.
C7_ActiveNeverReturns ==
    [][(pc # "idle" /\ ~IsActive) => ~IsActive']_vars

C7_Witness ==
    /\ pc = "finished"
    /\ node.commands /\ node.events /\ node.thread
    /\ ~cmdClosed
    /\ ~IsActive

\* C8: every call of active() returns TRUE exactly when the command sender
\* is present and open, the event receiver is present and open, and the
\* task handle is present and unfinished, as they are at that call.
C8_ActiveIffAllLive ==
    activeSeen # None =>
        LET a == activeSeen[1]
        IN  a.result = (/\ a.commands /\ ~a.commandsClosed
                        /\ a.events /\ ~a.eventsClosed
                        /\ a.thread /\ ~a.finished)

C8_Witness ==
    /\ activeSeen # None
    /\ activeSeen[1].commands /\ ~activeSeen[1].commandsClosed
    /\ activeSeen[1].events /\ activeSeen[1].eventsClosed
    /\ activeSeen[1].thread /\ ~activeSeen[1].finished
    /\ ~activeSeen[1].result

ValidIdStrings == {"QmA", "QmB"}
ValidAddrStrings == {"/ip4/127.0.0.1/tcp/4001"}
ListOf(opt) == IF opt = None THEN <<>> ELSE opt[1]

\* C10: try_bootstrap with a malformed identifier or address returns a
\* parse error and leaves the builder's peers as they were; with both valid
\* it appends one Bootstrap peer after the earlier peers.
C10_BootstrapValidation ==
    tb.called =>
        IF tb.id \in ValidIdStrings /\ tb.addr \in ValidAddrStrings
        THEN /\ tb.ret = "Ok"
             /\ builderPeers # None
             /\ Len(builderPeers[1]) = Len(ListOf(tb.before)) + 1
             /\ SubSeq(builderPeers[1], 1, Len(ListOf(tb.before))) = ListOf(tb.before)
             /\ LET p == builderPeers[1][Len(builderPeers[1])]
                IN  /\ p.kind = "Bootstrap"
                    /\ p.id = PeerId_from_str(tb.id).val
                    /\ p.address = Multiaddr_from_str(tb.addr).val
        ELSE /\ tb.ret = "ParseError"
             /\ builderPeers = tb.before

C10_Witness ==
    /\ tb.called
    /\ tb.ret = "ParseError"
    /\ tb.before # None
    /\ builderPeers = tb.before

\* C11: handling a command never ends the loop. Whatever the handler met
\* (a failed dial, a failed registration, a response sent to a caller that
\* is gone), the step that finishes it leaves the engine at the top of the
\* loop with the stack free for the next wait, the listener and both
\* channels as they were and the queue untouched, so that a queued
\* envelope is the next one dequeued.
C11_HandlingKeepsLoopRunning ==
    [][(pc = "cmd_locked" /\ pc' # pc)
          => /\ pc' = "loop" /\ stack' = "free"
             /\ listener' = listener
             /\ cmdClosed' = cmdClosed /\ evtClosed' = evtClosed
             /\ cmdQueue' = cmdQueue
             /\ envLoc'[cur] = "dropped"
             /\ \A e \in Envelopes : envLoc[e] = "queued" => envLoc'[e] = "queued"]_vars

C11_Witness ==
    /\ Running /\ listener /\ ~cmdClosed /\ ~evtClosed
    /\ \E e \in Envelopes, f \in Envelopes :
         /\ e < f
         /\ callerState[e] = "cancelled" /\ slot[e] = <<>>
         /\ Handled(e) /\ responses[e] = <<ErrOf("DialError")>>
         /\ Handled(f) /\ responses[f] = <<ErrOf("RegisterError")>>

\* C12: a handled AddRelay(peer) made exactly one network operation, the
\* dial of peer.address, and no registration; the one response sent for it
\* is the unit success when that dial succeeded and the dial's error when
\* it failed.
C12_AddRelayIsOneDial ==
    \A e \in Envelopes :
        (Handled(e) /\ envKind[e] = "AddRelay")
            => /\ Len(netlog[e]) = 1
               /\ netlog[e][1][1] = <<"dial", envPeer[e].address>>
               /\ netlog[e][1][2] \in {"Ok", "DialError"}
               /\ Registrations(e) = {}
               /\ responses[e] = <<IF netlog[e][1][2] = "Ok"
                                   THEN OkNull
                                   ELSE ErrOf(netlog[e][1][2])>>

C12_Witness ==
    \E e \in Envelopes, f \in Envelopes :
        /\ envKind[e] = "AddRelay" /\ envKind[f] = "AddRelay"
        /\ DialSucceeded(e) /\ callerState[e] = "done" /\ responses[e] = <<OkNull>>
        /\ DialFailed(f) /\ callerState[f] = "done" /\ responses[f] = <<ErrOf("DialError")>>

\* C13: no caller is left waiting forever. Once Client::main has returned,
\* nothing dequeues or answers any more, so every caller that is still
\* waiting must find its response channel answered or closed: its envelope
\* was handled, or was dropped with its response sender.
C13_NoCallerStranded ==
    \A e \in Envelopes :
        (Returned /\ callerState[e] = "waiting")
            => (slot[e] # <<>> \/ envLoc[e] = "dropped")

\* the response that the operations logged for envelope e call for: the
\* outcome of the last of them
OwnOutcome(e) ==
    LET last == netlog[e][Len(netlog[e])][2]
    IN  IF last = "Ok" THEN OkNull ELSE ErrOf(last)

\* C14: commands are dequeued in the order they were sent, whatever swarm
\* events and inbound streams come between: the queue changes only by a
\* send at its tail or a dequeue at its head, and the envelope dequeued is
\* older than every envelope still queued (envelopes are numbered in send
\* order). Each response goes only to the channel of the command that
\* caused it: a response channel receives a value only while its own
\* envelope is being handled, and the value is the outcome of the
\* operations made for that envelope's own peer.
C14_FifoAndOwnResponse ==
    /\ [][cmdQueue' # cmdQueue
            => \/ /\ cmdQueue # <<>>
                  /\ cmdQueue' = Tail(cmdQueue) /\ cur' = Head(cmdQueue)
               \/ \E e \in Envelopes : cmdQueue' = Append(cmdQueue, e)]_vars
    /\ [][(cur' # cur /\ cur' # 0)
            => \A e \in Envelopes : envLoc'[e] = "queued" => cur' < e]_vars
    /\ [][\A e \in Envelopes :
            Len(slot'[e]) > Len(slot[e]) => (e = cur /\ pc = "cmd_locked")]_vars
    /\ [](\A e \in Envelopes :
            slot[e] # <<>>
                => /\ Handled(e)
                   /\ slot[e] = <<OwnOutcome(e)>>
                   /\ DialOf(e)[1] = <<"dial", envPeer[e].address>>)

C14_Witness ==
    /\ Handled(1) /\ callerState[1] = "waiting" /\ slot[1] = <<OwnOutcome(1)>>
    /\ pc = "cmd_locked" /\ cur = 2 /\ slot[2] = <<>>
    /\ envKind[1] # envKind[2]
    /\ envPeer[1] # envPeer[2]

\* C15, as claimed: the iteration that handles an envelope makes at most
\* one network operation (netlog[e] holds the operations of the one
\* iteration that handled e).
C15_AtMostOneOperation ==
    \A e \in Envelopes : Len(netlog[e]) <= 1

\* C15, amended: an iteration makes one network operation, except the
\* AddRendezvous whose dial succeeded, which makes two under the same
\* acquisition of the stack: that dial, then one registration. Operations
\* are made only by the handler while it holds the stack, for the envelope
\* it handles, and the handler's guard is gone when the next wait begins.
C15_OneOrDialThenRegister ==
    /\ [](\A e \in Envelopes :
            /\ Len(netlog[e]) <= 2
            /\ Handled(e) => Len(netlog[e]) >= 1
            /\ Len(netlog[e]) = 2
                 => /\ envKind[e] = "AddRendezvous"
                    /\ netlog[e][1] = <<<<"dial", envPeer[e].address>>, "Ok">>
                    /\ netlog[e][2][1] = <<"register", Namespace, envPeer[e].id>>)
    /\ [][netlog' # netlog
            => /\ pc = "cmd_locked" /\ stack = "handler" /\ stack' # "handler"
               /\ \A e \in Envelopes : e # cur => netlog'[e] = netlog[e]]_vars
    /\ [](pc = "wait" => stack = "loop")

C15_Witness ==
    /\ pc = "wait" /\ stack = "loop"
    /\ \E e \in Envelopes, f \in Envelopes :
         /\ Handled(e) /\ Len(netlog[e]) = 2
         /\ Handled(f) /\ Len(netlog[f]) = 1 /\ envKind[f] = "AddRelay"

\* C16: the shutdown is ordered. After the loop, the listener is removed
\* first, the command channel is closed next, the event channel after it,
\* and the task finishes only with all three done. Once the command
\* channel is closed it stays closed, a command issued later fails at its
\* send, and no envelope enters the queue.
C16_ShutdownOrder ==
    /\ [][(pc = "remove_listener" /\ pc' # pc)
            => (~listener' /\ pc' = "close_commands")]_vars
    /\ [][(pc = "close_commands" /\ pc' # pc)
            => (~listener /\ cmdClosed' /\ pc' = "close_events")]_vars
    /\ [][(pc = "close_events" /\ pc' # pc)
            => (~listener /\ cmdClosed /\ evtClosed' /\ pc' = "returned")]_vars
    /\ [][(taskFinished' /\ ~taskFinished /\ mainResult = "LoopError")
            => (~listener /\ cmdClosed /\ evtClosed)]_vars
    /\ [][cmdClosed
            => /\ cmdClosed'
               /\ Len(cmdQueue') <= Len(cmdQueue)
               /\ \A e \in Envelopes :
                    /\ envLoc'[e] = "queued" => envLoc[e] = "queued"
                    /\ (callerState[e] = "idle" /\ callerState'[e] # "idle")
                         => callerState'[e] = "send_failed"]_vars

C16_Witness ==
    /\ pc = "finished" /\ mainResult = "LoopError"
    /\ ~listener /\ cmdClosed /\ evtClosed
    /\ envLoc[1] = "queued"
    /\ callerState[2] = "send_failed" /\ envLoc[2] = "none"

\* C17: the engine is in its loop only with a listener bound. When the
\* listen address does not parse or the bind fails, main returns that
\* error from its first statement: the loop is never entered, no wait
\* completes, no envelope is dequeued, no network operation is made and no
\* response is sent.
C17_RunningOnlyAfterBind ==
    /\ [](Running => (listener /\ mainResult = "none"))
    /\ [][(pc = "main" /\ pc' # pc)
            => \/ pc' = "accept" /\ listener' /\ mainResult' = "none"
               \/ pc' = "returned" /\ ~listener' /\ mainResult' = "BindError"]_vars
    /\ [](mainResult = "BindError"
            => /\ Returned /\ ~listener
               /\ lastWake = "none" /\ cur = 0 /\ stack = "free"
               /\ \A e \in Envelopes :
                    /\ envLoc[e] \in {"none", "queued"}
                    /\ netlog[e] = <<>>
                    /\ responses[e] = <<>> /\ slot[e] = <<>>)

C17_Witness ==
    /\ mainResult = "BindError" /\ pc = "finished"
    /\ envLoc[1] = "queued" /\ callerState[1] = "waiting"
    /\ responses[1] = <<>>

\* the Node holds none of the three handles
Dormant == ~node.commands /\ ~node.events /\ ~node.thread

\* C18: in every state the Node is dormant, holding none of the command
\* sender, the event receiver and the task handle, or active, holding all
\* three with both channels open and the task unfinished.
C18_DormantOrActive ==
    \/ Dormant
    \/ /\ node.commands /\ node.events /\ node.thread
       /\ IsActive

\* C19: the loop never runs idle. Every wait that completes hands one item
\* (a command, a swarm event, an inbound stream) to one handler, so the
\* loop is never back at its wait after an iteration that dispatched
\* nothing with the same empty wake-up ready again: a closed and empty
\* command channel.
C19_NoIdleIteration ==
    ~(pc = "wait" /\ lastWake = "closed" /\ cmdClosed /\ cmdQueue = <<>>)

\* C20: the stack has one holder at a time and the loop never waits for a
\* lock it holds itself. The loop holds the stack exactly while it is
\* suspended in its wait and the handler exactly while it works on the
\* envelope; the stack changes hands only through being free; and it is
\* free whenever one of the two is about to lock it: when handle_command
\* starts on a dequeued envelope, and at the top of every iteration.
C20_StackNeverSelfBlocked ==
    /\ [](stack = "loop" <=> pc = "wait")
    /\ [](stack = "handler" <=> pc = "cmd_locked")
    /\ [](pc \in {"cmd", "loop"} => stack = "free")
    /\ [][stack' # stack => (stack = "free" \/ stack' = "free")]_vars
    /\ [][(pc = "cmd" /\ pc' # pc) => (pc' = "cmd_locked" /\ stack' = "handler")]_vars

C20_Witness ==
    /\ pc = "cmd_locked" /\ stack = "handler" /\ cur = 2
    /\ Handled(1) /\ Len(netlog[1]) = 2
    /\ lastWake = "command"

====
